---- MODULE Spec2Model ----
(***************************************************************************)
(* Model of the azure-iotcentral-device-client capability-model parser     *)
(* (parse) and of the call-style contract of the client facade             *)
(* (IIoTCClient, IIoTCProperty, IIoTCCommand).                             *)
(*                                                                         *)
(* parse is modelled as the tree walk the code performs: one step per      *)
(* forEach iteration and per statement that can throw.  Objects carry an   *)
(* identity (oid) so that freshness of the returned map and of its         *)
(* descriptors can be stated.                                              *)
(***************************************************************************)
EXTENDS Integers, Sequences, FiniteSets, TLC

VARIABLES
    capabilityModel,    \* argument 1 of parse
    propertyCallback,   \* argument 2 of parse
    commandCallback,    \* argument 3 of parse
    pc,                 \* position of the walk
    res,                \* the local map `res`
    resOid,             \* identity of the object bound to `res`
    resProto,           \* the descriptor that is the prototype of `res`, if any
    i,                  \* index of the implements entry being visited
    cInf,               \* the descriptor under construction
    j,                  \* index of the contents item being visited
    trace,              \* calls parse has made on CommonInterface so far
    ret,                \* what the caller of parse has received
    prev,               \* arguments and result of the previous parse call
    pending,            \* client calls whose delegated operation is in flight
    last                \* the client call that completed most recently

parseVars == <<capabilityModel, propertyCallback, commandCallback, pc, res,
               resOid, resProto, i, cInf, j, trace, ret, prev>>

clientVars == <<pending, last>>

vars == <<parseVars, clientVars>>

----------------------------------------------------------------------------
(* Bounds *)

\* Largest capability model of a single parse call, counted in tree nodes:
\* one per implements entry plus one per contents item.
MaxNodes == 3

\* Largest capability model, in tree nodes, when parse is called repeatedly.
MaxNodesRepeated == 2

\* Largest number of client calls in flight at once.
MaxPending == 2

----------------------------------------------------------------------------
(* JSON values *)

\* A field that may be missing from its object carries a flag (hasType,
\* hasName); when the flag is FALSE the field reads as undefined.
NullItem ==
    [null |-> TRUE, hasType |-> FALSE, type |-> "", name |-> "", writable |-> FALSE]

MkItem(t, n, w) ==
    [null |-> FALSE, hasType |-> TRUE, type |-> t, name |-> n, writable |-> w]

\* An item with no '@type'.
UntypedItem(n) ==
    [null |-> FALSE, hasType |-> FALSE, type |-> "", name |-> n, writable |-> FALSE]

\* Items of schema.contents: two properties, a command, a telemetry, an item
\* of an unrecognised '@type', one with no '@type', and a null.
Items ==
    { MkItem("Property", "x", TRUE), MkItem("Property", "y", FALSE),
      MkItem("Command", "z", FALSE), MkItem("Telemetry", "w", FALSE),
      MkItem("Relationship", "u", FALSE), UntypedItem("v"),
      NullItem }

NoSchema == [present |-> FALSE, hasContents |-> FALSE, contents |-> <<>>]

SchemaNoContents == [present |-> TRUE, hasContents |-> FALSE, contents |-> <<>>]

SchemaWith(c) == [present |-> TRUE, hasContents |-> TRUE, contents |-> c]

NullInterface ==
    [null |-> TRUE, hasType |-> FALSE, type |-> "", hasName |-> FALSE,
     name |-> "", id |-> "", schema |-> NoSchema]

MkInterface(t, n, d, s) ==
    [null |-> FALSE, hasType |-> TRUE, type |-> t, hasName |-> TRUE,
     name |-> n, id |-> d, schema |-> s]

\* An entry with no name field.
NamelessInterface(t, d, s) ==
    [null |-> FALSE, hasType |-> TRUE, type |-> t, hasName |-> FALSE,
     name |-> "", id |-> d, schema |-> s]

\* The property key whose assignment on a plain object replaces the object's
\* prototype instead of creating a key.
ProtoKey == "__proto__"

InterfaceNames == {"a", "b", ProtoKey}

InterfaceIds == {"urn:1", "urn:2"}

\* Schemas with exactly k contents items; with k = 0: no schema object, a
\* schema without contents, a schema with empty contents.
SchemasOfSize(k) ==
    IF k = 0 THEN {NoSchema, SchemaNoContents, SchemaWith(<<>>)}
    ELSE {SchemaWith(c) : c \in [1..k -> Items]}

\* Entries of implements that parse does not register and whose schema it
\* never reads.
SkippedInterfaces ==
    { NullInterface,
      MkInterface("Interface", "a", "urn:1", NoSchema),
      NamelessInterface("InterfaceInstance", "urn:1", SchemaWith(<<>>)),
      MkInterface("InterfaceInstance", "", "urn:2", SchemaWith(<<>>)) }

\* Entries of implements made of n tree nodes (the entry and n-1 items).
InterfacesOfSize(n) ==
    { MkInterface("InterfaceInstance", nm, d, s) :
        nm \in InterfaceNames, d \in InterfaceIds, s \in SchemasOfSize(n - 1) }
    \cup (IF n = 1 THEN SkippedInterfaces ELSE {})

RECURSIVE ImplementsOfSize(_)
ImplementsOfSize(n) ==
    IF n = 0 THEN {<<>>}
    ELSE UNION { { <<e>> \o rest : e \in InterfacesOfSize(k),
                                   rest \in ImplementsOfSize(n - k) } : k \in 1..n }

NullModel == [null |-> TRUE, hasImplements |-> FALSE, implements |-> <<>>]

ModelNoImplements == [null |-> FALSE, hasImplements |-> FALSE, implements |-> <<>>]

ModelWith(impl) == [null |-> FALSE, hasImplements |-> TRUE, implements |-> impl]

CapabilityModels(maxNodes) ==
    {NullModel, ModelNoImplements}
    \cup { ModelWith(impl) : impl \in UNION {ImplementsOfSize(n) : n \in 0..maxNodes} }

\* The models of repeated calls: entries are null or an InterfaceInstance with
\* '@id' urn:1 and a contents list of writable properties and relationships.
RepeatedNames == {"a", ProtoKey}

RepeatedItems == {MkItem("Property", "x", TRUE), MkItem("Relationship", "u", FALSE)}

InRepeatedDomain(e) ==
    \/ e = NullInterface
    \/ /\ e.type = "InterfaceInstance"
       /\ e.hasName
       /\ e.name \in RepeatedNames
       /\ e["id"] = "urn:1"
       /\ e.schema.hasContents
       /\ \A n \in 1..Len(e.schema.contents) : e.schema.contents[n] \in RepeatedItems

RepeatedModels ==
    {m \in CapabilityModels(MaxNodesRepeated) :
        \A k \in 1..Len(m.implements) : InRepeatedDomain(m.implements[k])}

Callbacks == {"cb1", "cb2"}

\* The property and the command callback of a call are two functions.
CallbackPairs == {cbs \in Callbacks \X Callbacks : cbs[1] # cbs[2]}

----------------------------------------------------------------------------
(* CommonInterface: the interface descriptor *)

\* No object (a null reference).
NoOid == 0

NoInterface ==
    [oid |-> NoOid, name |-> "", id |-> "", propertyCallback |-> "",
     commandCallback |-> "", properties |-> <<>>, commands |-> <<>>,
     telemetry |-> <<>>]

\* new CommonInterface(name, id, propertyCallback, commandCallback)
NewCommonInterface(oid, name, id, propCb, cmdCb) ==
    [oid |-> oid, name |-> name, id |-> id, propertyCallback |-> propCb,
     commandCallback |-> cmdCb, properties |-> <<>>, commands |-> <<>>,
     telemetry |-> <<>>]

addProperty(inf, name, writable) ==
    [inf EXCEPT !.properties = Append(@, [name |-> name, writable |-> writable])]

addCommand(inf, name) == [inf EXCEPT !.commands = Append(@, name)]

addTelemetry(inf, name) == [inf EXCEPT !.telemetry = Append(@, name)]

----------------------------------------------------------------------------
(* The client facade: IIoTCClient, IIoTCProperty, IIoTCCommand *)

\* The operations declared with both call styles.
SendOps == {"sendTelemetry", "sendState", "sendEvent", "sendProperty"}

ResponseOps == {"report", "acknowledge", "update"}

DualStyleOps == {"connect", "disconnect"} \cup SendOps \cup ResponseOps

\* The two call styles: "callback" is a call whose last argument is a
\* SendCallback, "promise" a call without one.
CallStyles == {"callback", "promise"}

\* The operations declared with one signature, an optional callback and the
\* return type Promise<Result> | void (interfaces.ts lines 91 and 99).
SingleSignatureOps == {"sendState", "sendEvent"}

\* The return types the declarations admit for a call.  Of an overloaded
\* operation the overload that takes a SendCallback is declared void and the
\* one without is declared Promise<Result>; a single-signature operation is
\* declared Promise<Result> | void whatever the call style.  This is a bound
\* on what a call returns, not what it returns.
DeclaredReturnTypes(op, style) ==
    IF op \in SingleSignatureOps THEN {"void", "promise"}
    ELSE IF style = "callback" THEN {"void"} ELSE {"promise"}

\* ReturnType with the call style ignored: every call returns a promise.
ReturnTypePromise(op, style) == "promise"

\* What a call returns: the facade normalises the two call styles, void to a
\* caller that passed a callback and a promise to one that did not.
ReturnType(op, style) == IF style = "callback" THEN "void" ELSE "promise"

NoClientCall ==
    [op |-> "none", style |-> "none", returned |-> "none", promise |-> "none",
     settled |-> 0, callbackCalls |-> 0, callbackArgs |-> "none",
     outcome |-> "none"]

\* The call as it stands when the facade has handed the operation over to
\* the transport.
StartCall(op, style) ==
    [op |-> op, style |-> style, returned |-> ReturnType(op, style),
     promise |-> IF ReturnType(op, style) = "promise" THEN "pending" ELSE "none",
     settled |-> 0, callbackCalls |-> 0, callbackArgs |-> "none",
     outcome |-> "none"]

\* The call after the delegated operation completed with the given outcome:
\* the callback, when one was passed, is invoked with (err, result); the
\* promise, when one was returned, is resolved or rejected.
Normalise(c, outcome) ==
    [c EXCEPT
        !.outcome = outcome,
        !.callbackCalls = IF c.style = "callback" THEN @ + 1 ELSE @,
        !.callbackArgs = IF c.style = "callback"
                         THEN (IF outcome = "ok" THEN "result" ELSE "err") ELSE @,
        !.settled = IF c.promise = "pending" THEN @ + 1 ELSE @,
        !.promise = IF c.promise = "pending"
                    THEN (IF outcome = "ok" THEN "resolved" ELSE "rejected") ELSE @]

\* The outcomes a delegated operation can complete with: the transport or
\* the provisioning library the facade delegates to succeeds or fails.
DelegateOutcomes == {"ok", "err"}

Remove(seq, k) == SubSeq(seq, 1, k - 1) \o SubSeq(seq, k + 1, Len(seq))

\* A client operation is called in one of the two styles.
ClientCall ==
    /\ Len(pending) < MaxPending
    /\ \E op \in DualStyleOps, style \in CallStyles :
           pending' = Append(pending, StartCall(op, style))
    /\ last' = last
    /\ UNCHANGED parseVars

\* The delegated operation of a call in flight completes.
ClientComplete ==
    /\ \E k \in 1..Len(pending), outcome \in DelegateOutcomes :
           /\ last' = Normalise(pending[k], outcome)
           /\ pending' = Remove(pending, k)
    /\ UNCHANGED parseVars

\* The client after construction.
ClientConstructed ==
    /\ pending = <<>>
    /\ last = NoClientCall

----------------------------------------------------------------------------
(* parse *)

EmptyMap == [k \in {} |-> NoInterface]

NoResult == [kind |-> "none", map |-> EmptyMap, oid |-> NoOid, proto |-> NoInterface]

\* parse ended with a TypeError: the caller receives no value.
Thrown == [kind |-> "error", map |-> EmptyMap, oid |-> NoOid, proto |-> NoInterface]

NoCall ==
    [kind |-> "none", model |-> NullModel, propertyCallback |-> "",
     commandCallback |-> "", map |-> EmptyMap, oid |-> NoOid,
     proto |-> NoInterface]

\* One call parse has made on CommonInterface (or the store into res).
Event(op, target, name, writable) ==
    [op |-> op, i |-> i, j |-> j, target |-> target, name |-> name,
     writable |-> writable]

OidsOfMap(m) == {m[k].oid : k \in DOMAIN m}

\* Objects that are still referenced: the previous call's result, the map
\* and every descriptor of this call.
UsedOids ==
    {prev.oid, prev.proto.oid} \cup OidsOfMap(prev.map) \cup {resOid}
    \cup {trace[k].target : k \in 1..Len(trace)}

\* Identity of a newly allocated object: one that no live object has.
FreshOid ==
    CHOOSE n \in 1..(Cardinality(UsedOids) + 1) :
        /\ n \notin UsedOids
        /\ \A m \in 1..(n - 1) : m \in UsedOids

\* Line 6: capabilityModel && capabilityModel.implements &&
\*         capabilityModel.implements.length > 0
HasImplements(m) == ~m.null /\ m.hasImplements /\ Len(m.implements) > 0

\* IsInterfaceInstance with 'Interface' accepted as well.
IsInterfaceInstanceLoose(interf) ==
    interf.hasType /\ interf.type \in {"InterfaceInstance", "Interface"}

\* Line 8: interf["@type"] === 'InterfaceInstance'
IsInterfaceInstance(interf) == interf.hasType /\ interf.type = "InterfaceInstance"

\* Line 9: interf.name && interf.name.length > 0
HasName(interf) == interf.hasName /\ interf.name # "" /\ Len(interf.name) > 0

\* Lines 8 and 15: reading obj["@type"] raises a TypeError when obj is null.
TypeReadThrows(obj) == obj.null

\* ContentsReadThrows with the schema guarded (interf.schema && ...).
ContentsReadGuarded(schema) == FALSE

\* Line 12: reading interf.schema.contents raises a TypeError when the entry
\* has no schema object.
ContentsReadThrows(schema) == ~schema.present

\* Line 12: interf.schema.contents && interf.schema.contents.length > 0
HasContents(schema) == schema.hasContents /\ Len(schema.contents) > 0

\* ItemKind with the last test dropped (a plain else).
ItemKindElseTelemetry(item) ==
    IF item.hasType /\ item.type # "" /\ item.type = "Property" THEN "Property"
    ELSE IF item.hasType /\ item.type # "" /\ item.type = "Command" THEN "Command"
    ELSE "Telemetry"

\* Lines 15, 18, 21: the collection an item goes to, "" for none.
ItemKind(item) ==
    IF item.hasType /\ item.type # "" /\ item.type = "Property" THEN "Property"
    ELSE IF item.hasType /\ item.type # "" /\ item.type = "Command" THEN "Command"
    ELSE IF item.hasType /\ item.type # "" /\ item.type = "Telemetry" THEN "Telemetry"
    ELSE ""

\* CreateInterface with the two callbacks in the wrong order.
CreateInterfaceSwapped(oid, interf) ==
    NewCommonInterface(oid, interf.name, interf["id"], commandCallback, propertyCallback)

\* Line 11: the descriptor parse constructs for an implements entry.
CreateInterface(oid, interf) ==
    NewCommonInterface(oid, interf.name, interf["id"], propertyCallback, commandCallback)

\* Line 26: res[interfaceName] = cInf, the own keys of res afterwards.  res is
\* a plain object: the key __proto__ is an accessor inherited from
\* Object.prototype and assigning an object to it creates no key.
StoreInto(map, name, inf) ==
    IF name = ProtoKey THEN map
    ELSE [k \in DOMAIN map \cup {name} |-> IF k = name THEN inf ELSE map[k]]

\* Line 26: the prototype of res afterwards.
ProtoAfter(proto, name, inf) == IF name = ProtoKey THEN inf ELSE proto

\* InitialMap with res kept in a variable that outlives the call.
InitialMapShared == prev.map

\* The map parse starts a call with (line 5: let res = {}).
InitialMap == EmptyMap

\* forEach moves on to the entry after i, or the loop ends.
NextInterface ==
    IF i < Len(capabilityModel.implements)
    THEN /\ pc' = "interface"
         /\ i' = i + 1
    ELSE /\ pc' = "return"
         /\ i' = i

\* Lines 5-6: a call begins.
ParseBegin ==
    /\ pc = "begin"
    /\ res' = InitialMap
    /\ resOid' = FreshOid
    /\ resProto' = NoInterface
    /\ IF HasImplements(capabilityModel)
       THEN /\ pc' = "interface"
            /\ i' = 1
       ELSE /\ pc' = "return"
            /\ i' = 0
    /\ UNCHANGED <<capabilityModel, propertyCallback, commandCallback, cInf, j,
                   trace, ret, prev>>
    /\ UNCHANGED clientVars

\* VisitInterface with the store (line 26) moved ahead of the items loop.
VisitInterfaceStoreFirst ==
    /\ pc = "interface"
    /\ LET interf == capabilityModel.implements[i]
       IN  IF TypeReadThrows(interf)
           THEN /\ pc' = "thrown"
                /\ ret' = Thrown
                /\ UNCHANGED <<i, cInf, trace, res, resProto>>
           ELSE IF IsInterfaceInstance(interf) /\ HasName(interf)
           THEN /\ cInf' = CreateInterface(FreshOid, interf)
                /\ res' = StoreInto(res, interf.name, CreateInterface(FreshOid, interf))
                /\ resProto' = ProtoAfter(resProto, interf.name,
                                          CreateInterface(FreshOid, interf))
                /\ trace' = trace \o <<Event("new", FreshOid, interf.name, FALSE),
                                       Event("store", FreshOid, interf.name, FALSE)>>
                /\ pc' = "schema"
                /\ UNCHANGED <<i, ret>>
           ELSE /\ NextInterface
                /\ UNCHANGED <<cInf, trace, ret, res, resProto>>
    /\ UNCHANGED <<capabilityModel, propertyCallback, commandCallback,
                   resOid, j, prev>>
    /\ UNCHANGED clientVars

\* Lines 7-11: the forEach callback is entered for entry i.
VisitInterface ==
    /\ pc = "interface"
    /\ LET interf == capabilityModel.implements[i]
       IN  IF TypeReadThrows(interf)
           THEN \* interf["@type"] of null: TypeError
                /\ pc' = "thrown"
                /\ ret' = Thrown
                /\ UNCHANGED <<i, cInf, trace>>
           ELSE IF IsInterfaceInstance(interf) /\ HasName(interf)
           THEN /\ cInf' = CreateInterface(FreshOid, interf)
                /\ trace' = Append(trace, Event("new", FreshOid, interf.name, FALSE))
                /\ pc' = "schema"
                /\ UNCHANGED <<i, ret>>
           ELSE /\ NextInterface
                /\ UNCHANGED <<cInf, trace, ret>>
    /\ UNCHANGED <<capabilityModel, propertyCallback, commandCallback, res,
                   resOid, resProto, j, prev>>
    /\ UNCHANGED clientVars

\* Lines 12-13: the contents of the entry's schema are read.
ReadContents ==
    /\ pc = "schema"
    /\ LET schema == capabilityModel.implements[i].schema
       IN  IF ContentsReadThrows(schema)
           THEN \* interf.schema.contents of undefined: TypeError
                /\ pc' = "thrown"
                /\ ret' = Thrown
                /\ j' = j
           ELSE IF HasContents(schema)
           THEN /\ pc' = "item"
                /\ j' = 1
                /\ ret' = ret
           ELSE /\ pc' = "store"
                /\ j' = j
                /\ ret' = ret
    /\ UNCHANGED <<capabilityModel, propertyCallback, commandCallback, res,
                   resOid, resProto, i, cInf, trace, prev>>
    /\ UNCHANGED clientVars

\* Lines 14-24: the inner forEach callback is entered for item j.
VisitItem ==
    /\ pc = "item"
    /\ LET items == capabilityModel.implements[i].schema.contents
           item == items[j]
           kind == ItemKind(item)
       IN  IF TypeReadThrows(item)
           THEN \* item["@type"] of null: TypeError
                /\ pc' = "thrown"
                /\ ret' = Thrown
                /\ UNCHANGED <<j, cInf, trace>>
           ELSE /\ IF kind = "Property"
                   THEN /\ cInf' = addProperty(cInf, item.name, item.writable)
                        /\ trace' = Append(trace, Event("addProperty", cInf.oid,
                                                        item.name, item.writable))
                   ELSE IF kind = "Command"
                   THEN /\ cInf' = addCommand(cInf, item.name)
                        /\ trace' = Append(trace, Event("addCommand", cInf.oid,
                                                        item.name, FALSE))
                   ELSE IF kind = "Telemetry"
                   THEN /\ cInf' = addTelemetry(cInf, item.name)
                        /\ trace' = Append(trace, Event("addTelemetry", cInf.oid,
                                                        item.name, FALSE))
                   ELSE UNCHANGED <<cInf, trace>>
                /\ IF j < Len(items)
                   THEN /\ j' = j + 1
                        /\ pc' = "item"
                   ELSE /\ j' = j
                        /\ pc' = "store"
                /\ ret' = ret
    /\ UNCHANGED <<capabilityModel, propertyCallback, commandCallback, res,
                   resOid, resProto, i, prev>>
    /\ UNCHANGED clientVars

\* Line 26: the descriptor is stored under its name.
StoreInterface ==
    /\ pc = "store"
    /\ res' = StoreInto(res, capabilityModel.implements[i].name, cInf)
    /\ resProto' = ProtoAfter(resProto, capabilityModel.implements[i].name, cInf)
    /\ trace' = Append(trace, Event("store", cInf.oid, cInf.name, FALSE))
    /\ cInf' = NoInterface
    /\ j' = 0
    /\ NextInterface
    /\ UNCHANGED <<capabilityModel, propertyCallback, commandCallback, resOid,
                   ret, prev>>
    /\ UNCHANGED clientVars

\* Line 31: return res
ParseReturn ==
    /\ pc = "return"
    /\ pc' = "returned"
    /\ ret' = [kind |-> "map", map |-> res, oid |-> resOid, proto |-> resProto]
    /\ UNCHANGED <<capabilityModel, propertyCallback, commandCallback, res,
                   resOid, resProto, i, cInf, j, trace, prev>>
    /\ UNCHANGED clientVars

\* The state in which parse is entered with the given arguments.
Entered(model, propCb, cmdCb) ==
    /\ capabilityModel = model
    /\ propertyCallback = propCb
    /\ commandCallback = cmdCb
    /\ pc = "begin"
    /\ res = EmptyMap
    /\ resOid = NoOid
    /\ resProto = NoInterface
    /\ i = 0
    /\ cInf = NoInterface
    /\ j = 0
    /\ trace = <<>>
    /\ ret = NoResult

\* parse is entered with some capability model of at most maxNodes nodes:
\* a model without an implements list to walk, or one whose implements is a
\* first entry followed by the remaining entries.
EnteredWithModel(maxNodes, propCb, cmdCb) ==
    \/ \E model \in {NullModel, ModelNoImplements, ModelWith(<<>>)} :
           Entered(model, propCb, cmdCb)
    \/ \E n \in 1..maxNodes :
           \E k \in 1..n :
               \E first \in InterfacesOfSize(k), rest \in ImplementsOfSize(n - k) :
                   Entered(ModelWith(<<first>> \o rest), propCb, cmdCb)

Init ==
    /\ \E cbs \in CallbackPairs : EnteredWithModel(MaxNodes, cbs[1], cbs[2])
    /\ prev = NoCall
    /\ ClientConstructed

Next ==
    \/ ParseBegin
    \/ VisitInterface
    \/ ReadContents
    \/ VisitItem
    \/ StoreInterface
    \/ ParseReturn

Spec == Init /\ [][Next]_vars

\* parse is called again after it returned or threw; the caller keeps the
\* previous result.
ParseAgain ==
    /\ pc \in {"returned", "thrown"}
    /\ prev' = [kind |-> ret.kind, model |-> capabilityModel,
                propertyCallback |-> propertyCallback,
                commandCallback |-> commandCallback,
                map |-> ret.map, oid |-> ret.oid, proto |-> ret.proto]
    /\ \E model \in RepeatedModels, cbs \in CallbackPairs :
           /\ capabilityModel' = model
           /\ propertyCallback' = cbs[1]
           /\ commandCallback' = cbs[2]
    /\ pc' = "begin"
    /\ res' = EmptyMap
    /\ resOid' = NoOid
    /\ resProto' = NoInterface
    /\ i' = 0
    /\ cInf' = NoInterface
    /\ j' = 0
    /\ trace' = <<>>
    /\ ret' = NoResult
    /\ UNCHANGED clientVars

InitRepeated ==
    /\ \E model \in RepeatedModels, cbs \in CallbackPairs :
           Entered(model, cbs[1], cbs[2])
    /\ prev = NoCall
    /\ ClientConstructed

NextRepeated ==
    \/ ParseBegin
    \/ VisitInterface
    \/ ReadContents
    \/ VisitItem
    \/ StoreInterface
    \/ ParseReturn
    \/ ParseAgain

SpecRepeated == InitRepeated /\ [][NextRepeated]_vars

\* The client is used; parse is not running.
InitClient ==
    /\ Entered(NullModel, "cb1", "cb2")
    /\ prev = NoCall
    /\ ClientConstructed

NextClient ==
    \/ ClientCall
    \/ ClientComplete

SpecClient == InitClient /\ [][NextClient]_vars

----------------------------------------------------------------------------
(* What the capability model says, read off the document itself *)

\* The implements list parse walks (empty when line 6 finds none).
Implements ==
    IF capabilityModel.null \/ ~capabilityModel.hasImplements THEN <<>>
    ELSE capabilityModel.implements

\* An entry that is an InterfaceInstance with a non-empty name.
Registrable(e) ==
    ~e.null /\ e.hasType /\ e.type = "InterfaceInstance" /\ e.hasName /\ e.name # ""

RegistrableAt == {k \in 1..Len(Implements) : Registrable(Implements[k])}

RecognisedTypes == {"Property", "Command", "Telemetry"}

\* The items of an entry's schema.contents (none when contents is absent).
ContentsOf(e) == IF e.schema.present /\ e.schema.hasContents THEN e.schema.contents ELSE <<>>

Recognised(item) == ~item.null /\ item.hasType /\ item.type \in RecognisedTypes

\* The positions of an entry's contents whose '@type' is t.
ItemsOfType(e, t) ==
    {n \in 1..Len(ContentsOf(e)) :
        ~ContentsOf(e)[n].null /\ ContentsOf(e)[n].hasType /\ ContentsOf(e)[n].type = t}

\* An entry at which the walk raises an error: a null entry, or a registrable
\* one with no schema object or with a null item.
Throwing(e) ==
    \/ e.null
    \/ /\ Registrable(e)
       /\ \/ ~e.schema.present
          \/ \E n \in 1..Len(ContentsOf(e)) : ContentsOf(e)[n].null

ThrowingAt == {k \in 1..Len(Implements) : Throwing(Implements[k])}

Min(S) == CHOOSE n \in S : \A m \in S : n <= m

Max(S) == CHOOSE n \in S : \A m \in S : n >= m

\* The last registrable entry with name n.
LastNamed(n) == Max({k \in RegistrableAt : Implements[k].name = n})

\* The positions of the trace that record calls for entry k.
EventsOf(k) == {p \in 1..Len(trace) : trace[p].i = k}

AddOps == {"addProperty", "addCommand", "addTelemetry"}

AddOpOf(t) ==
    IF t = "Property" THEN "addProperty"
    ELSE IF t = "Command" THEN "addCommand" ELSE "addTelemetry"

\* A descriptor without its identity.
Content(d) ==
    <<d.name, d.id, d.propertyCallback, d.commandCallback, d.properties,
      d.commands, d.telemetry>>

----------------------------------------------------------------------------
(* Claims *)

\* C1: the key set of the map parse returns is exactly the set of names of
\* the implements entries whose '@type' is 'InterfaceInstance' and whose name
\* is non-empty.  An entry named __proto__ is registrable and leaves no key.
C1_KeysAreRegistrableNames ==
    ret.kind = "map" =>
        DOMAIN ret.map = {Implements[k].name : k \in RegistrableAt}

\* C2: for every entry parse registers, the add calls made on its descriptor
\* are exactly one per item whose '@type' is Property, Command or Telemetry,
\* each the add of that type with the item's name (and writable), and no call
\* is made for any other item.
C2_OneAddPerRecognisedItem ==
    ret.kind = "map" =>
        \A k \in RegistrableAt :
            LET e == Implements[k]
                adds == {p \in EventsOf(k) : trace[p].op \in AddOps}
            IN  /\ Cardinality(adds) =
                       Cardinality({n \in 1..Len(ContentsOf(e)) : Recognised(ContentsOf(e)[n])})
                /\ \A n \in 1..Len(ContentsOf(e)) :
                       LET item == ContentsOf(e)[n]
                           calls == {p \in adds : trace[p].j = n}
                       IN  IF Recognised(item)
                           THEN /\ Cardinality(calls) = 1
                                /\ \A p \in calls :
                                       /\ trace[p].op = AddOpOf(item.type)
                                       /\ trace[p].name = item.name
                                       /\ item.type = "Property" =>
                                              trace[p].writable = item.writable
                           ELSE calls = {}

\* C2 witness: a map was returned for an entry whose contents hold a
\* recognised item and an item that goes to no collection.
C2_Witness ==
    /\ ret.kind = "map"
    /\ \E k \in RegistrableAt :
           /\ \E n \in 1..Len(ContentsOf(Implements[k])) : Recognised(ContentsOf(Implements[k])[n])
           /\ \E n \in 1..Len(ContentsOf(Implements[k])) : ~Recognised(ContentsOf(Implements[k])[n])

\* C6 as stated: when implements holds a registrable entry with no schema
\* object, parse returns no map and ends with an error at that entry (the
\* first such entry).
C6_Original ==
    (\E k \in RegistrableAt : ~Implements[k].schema.present) =>
        /\ pc # "returned"
        /\ pc = "thrown" => i = Min({k \in RegistrableAt : ~Implements[k].schema.present})

\* C6 amended: when implements holds a registrable entry with no schema
\* object, parse never returns a map; it ends with an error at the first entry
\* that raises one (that entry, or an earlier entry that is null or holds a
\* null item), the caller receives nothing of what was built, and no entry
\* after the one that raised is visited.
C6_SchemaLessEntryThrows ==
    (\E k \in RegistrableAt : ~Implements[k].schema.present) =>
        LET first == Min(ThrowingAt)
        IN  /\ pc # "returned"
            /\ ret.kind # "map"
            /\ i <= first
            /\ \A p \in 1..Len(trace) : trace[p].i <= first
            /\ pc = "thrown" => (i = first /\ ret.kind = "error" /\ ret.map = EmptyMap)
            /\ pc # "thrown" => ENABLED Next

\* C6 witness: the walk ended with an error at a schema-less entry after it
\* had stored an earlier interface and before it visited a later entry.
C6_Witness ==
    /\ pc = "thrown"
    /\ i \in RegistrableAt
    /\ ~Implements[i].schema.present
    /\ DOMAIN res # {}
    /\ i < Len(Implements)

\* C7: the calls parse makes are ordered as the document is: by entry, and
\* within an entry the creation of the descriptor, then the adds in contents
\* order, then the store; every add and the store of entry k go to the
\* descriptor created for entry k, and each add carries an item of entry k.
Phase(op) == IF op = "new" THEN 0 ELSE IF op = "store" THEN 2 ELSE 1

C7_InOrderWalk ==
    /\ \A p \in 1..Len(trace), q \in 1..Len(trace) :
           p < q =>
               \/ trace[p].i < trace[q].i
               \/ /\ trace[p].i = trace[q].i
                  /\ \/ Phase(trace[p].op) < Phase(trace[q].op)
                     \/ /\ trace[p].op \in AddOps
                        /\ trace[q].op \in AddOps
                        /\ trace[p].j < trace[q].j
    /\ \A p \in 1..Len(trace) :
           /\ trace[p].i \in RegistrableAt
           /\ \E q \in 1..p : /\ trace[q].op = "new"
                              /\ trace[q].i = trace[p].i
                              /\ trace[q].target = trace[p].target
           /\ trace[p].op \in AddOps =>
                  /\ trace[p].j \in 1..Len(ContentsOf(Implements[trace[p].i]))
                  /\ trace[p].name = ContentsOf(Implements[trace[p].i])[trace[p].j].name
    /\ \A p \in 1..Len(trace), q \in 1..Len(trace) :
           (trace[p].op = "new" /\ trace[q].op = "new" /\ p # q) =>
               trace[p].target # trace[q].target
    /\ \A n \in DOMAIN res :
           \E p \in 1..Len(trace) : trace[p].op = "store" /\ trace[p].target = res[n].oid

\* C7 witness: an interface with an added item was stored and the descriptor
\* of the next interface has been created.
C7_Witness ==
    \E p \in 1..Len(trace), q \in 1..Len(trace), r \in 1..Len(trace) :
        /\ trace[p].op \in AddOps
        /\ trace[q].op = "store"
        /\ trace[r].op = "new"
        /\ trace[p].i = trace[q].i
        /\ trace[q].i < trace[r].i

\* The names that two or more registrable entries carry.
SharedNames ==
    {n \in {Implements[k].name : k \in RegistrableAt} :
        Cardinality({k \in RegistrableAt : Implements[k].name = n}) >= 2}

\* C8: when several registrable entries share a name, the returned map holds
\* an entry for that name and it is the descriptor built from the last of
\* them: its '@id' and its properties, commands and telemetry only.  Entries
\* that share the name __proto__ leave no entry in the map.
C8_LastEntryWins ==
    ret.kind = "map" =>
        \A n \in SharedNames :
            n \in DOMAIN ret.map /\
            LET e == Implements[LastNamed(n)]
                c == ContentsOf(e)
                d == ret.map[n]
            IN  /\ d.id = e["id"]
                /\ Len(d.properties) = Cardinality(ItemsOfType(e, "Property"))
                /\ Len(d.commands) = Cardinality(ItemsOfType(e, "Command"))
                /\ Len(d.telemetry) = Cardinality(ItemsOfType(e, "Telemetry"))
                /\ \A m \in 1..Len(d.properties) :
                       \E x \in ItemsOfType(e, "Property") :
                           /\ Cardinality({y \in ItemsOfType(e, "Property") : y < x}) = m - 1
                           /\ d.properties[m] = [name |-> c[x].name, writable |-> c[x].writable]
                /\ \A m \in 1..Len(d.commands) :
                       \E x \in ItemsOfType(e, "Command") :
                           /\ Cardinality({y \in ItemsOfType(e, "Command") : y < x}) = m - 1
                           /\ d.commands[m] = c[x].name
                /\ \A m \in 1..Len(d.telemetry) :
                       \E x \in ItemsOfType(e, "Telemetry") :
                           /\ Cardinality({y \in ItemsOfType(e, "Telemetry") : y < x}) = m - 1
                           /\ d.telemetry[m] = c[x].name

\* C9 as stated: parse returns an empty map, raising no error and creating
\* no descriptor, whenever the model is null, has no implements, has an empty
\* implements, or has no registrable entry.
C9_Original ==
    RegistrableAt = {} =>
        /\ pc # "thrown"
        /\ trace = <<>>
        /\ ret.kind = "map" => ret.map = EmptyMap

\* C9 amended: the same, provided that no entry of implements is null (a null
\* entry raises a TypeError when its '@type' is read).
C9_EmptyMapWithoutRegistrable ==
    (RegistrableAt = {} /\ \A k \in 1..Len(Implements) : ~Implements[k].null) =>
        /\ pc # "thrown"
        /\ trace = <<>>
        /\ res = EmptyMap
        /\ ret.kind = "map" => ret.map = EmptyMap
        /\ pc # "returned" => ENABLED Next

\* C9 witness: an empty map was returned for a non-empty implements list
\* none of whose entries is registrable.
C9_Witness ==
    /\ ret.kind = "map"
    /\ ret.map = EmptyMap
    /\ Len(Implements) > 1
    /\ RegistrableAt = {}

\* The descriptor was constructed by the call for an entry named n, with name
\* n, the entry's '@id' and the call's two callbacks in their order.
ConstructedFor(d, n) ==
    /\ d.name = n
    /\ d.propertyCallback = propertyCallback
    /\ d.commandCallback = commandCallback
    /\ \E p \in 1..Len(trace) :
           /\ trace[p].op = "new"
           /\ trace[p].target = d.oid
           /\ Implements[trace[p].i].name = n
           /\ Implements[trace[p].i]["id"] = d.id

\* C10: in the returned map the descriptor under key k was constructed with
\* name k, with the '@id' of the entry it was built from, and with the
\* propertyCallback and commandCallback of the call, in that order; so was,
\* for the name __proto__, the descriptor the map has as its prototype (the
\* value a read of that name gives).
C10_DescriptorArguments ==
    ret.kind = "map" =>
        /\ \A n \in DOMAIN ret.map : ConstructedFor(ret.map[n], n)
        /\ ret.proto # NoInterface => ConstructedFor(ret.proto, ProtoKey)

\* C10 witness: a map with two descriptors of different '@id' was returned.
C10_Witness ==
    /\ ret.kind = "map"
    /\ Cardinality(DOMAIN ret.map) = 2
    /\ \E n \in DOMAIN ret.map, m \in DOMAIN ret.map : ret.map[n].id # ret.map[m].id

\* C10 second case reached: a map was returned whose prototype is the
\* descriptor of an entry named __proto__, next to a descriptor under a key.
C10_ProtoReached ==
    /\ ret.kind = "map"
    /\ ret.proto # NoInterface
    /\ DOMAIN ret.map # {}

\* C5: parse keeps nothing between calls: a call's outcome is the one the
\* previous call had whenever the arguments are the same, the maps of two
\* calls on one model have equal keys and equal collections, and the map and
\* the descriptors a call returns are objects the previous result lacks.
SameModel == prev.model = capabilityModel

SameArguments ==
    /\ SameModel
    /\ prev.propertyCallback = propertyCallback
    /\ prev.commandCallback = commandCallback

\* The descriptors a result holds: under its keys and as its prototype.
DescriptorOids(r) ==
    OidsOfMap(r.map) \cup (IF r.proto = NoInterface THEN {} ELSE {r.proto.oid})

C5_NoStateBetweenCalls ==
    /\ (prev.kind # "none" /\ pc \in {"returned", "thrown"} /\ SameModel) =>
           ret.kind = prev.kind
    /\ (prev.kind = "map" /\ ret.kind = "map") =>
           /\ ret.oid # prev.oid
           /\ ret.oid \notin DescriptorOids(prev) \cup DescriptorOids(ret)
           /\ DescriptorOids(ret) \cap (DescriptorOids(prev) \cup {prev.oid}) = {}
           /\ SameModel =>
                  /\ DOMAIN ret.map = DOMAIN prev.map
                  /\ ret.proto.properties = prev.proto.properties
                  /\ ret.proto.commands = prev.proto.commands
                  /\ ret.proto.telemetry = prev.proto.telemetry
                  /\ ret.proto.id = prev.proto.id
                  /\ \A n \in DOMAIN ret.map :
                         /\ ret.map[n].properties = prev.map[n].properties
                         /\ ret.map[n].commands = prev.map[n].commands
                         /\ ret.map[n].telemetry = prev.map[n].telemetry
                         /\ ret.map[n].id = prev.map[n].id
           /\ SameArguments =>
                  /\ \A n \in DOMAIN ret.map : Content(ret.map[n]) = Content(prev.map[n])
                  /\ Content(ret.proto) = Content(prev.proto)
    /\ (prev.kind = "map" /\ ret.kind = "map" /\ ~SameModel) =>
           \A n \in DOMAIN ret.map : n \in {Implements[k].name : k \in RegistrableAt}

\* C5 witness: two consecutive calls on one model both returned a non-empty
\* map.
C5_Witness ==
    /\ prev.kind = "map"
    /\ ret.kind = "map"
    /\ SameModel
    /\ DOMAIN ret.map # {}
    /\ DOMAIN prev.map # {}

\* C5 second case reached: a call on another model follows a call that
\* returned a non-empty map.
C5_OtherModelReached ==
    /\ prev.kind = "map"
    /\ ret.kind = "map"
    /\ ~SameModel
    /\ DOMAIN prev.map # {}

\* C5 third case reached: two consecutive calls on one model both returned a
\* map whose prototype is a descriptor.
C5_ProtoReached ==
    /\ prev.kind = "map"
    /\ ret.kind = "map"
    /\ SameModel
    /\ prev.proto # NoInterface
    /\ ret.proto # NoInterface

\* The call is normalised: made with a callback it returns void, holds no
\* promise, and its callback is invoked exactly once, with the error or the
\* result, when the delegated operation completes; made without one it
\* returns a promise that is settled exactly once, resolved on success and
\* rejected on failure, and invokes no callback.
CallNormalised(c, done) ==
    /\ c.returned \in DeclaredReturnTypes(c.op, c.style)
    /\ c.style = "callback" =>
           /\ c.returned = "void"
           /\ c.promise = "none"
           /\ c.settled = 0
           /\ c.callbackCalls = (IF done THEN 1 ELSE 0)
           /\ done => c.callbackArgs = (IF c.outcome = "ok" THEN "result" ELSE "err")
    /\ c.style = "promise" =>
           /\ c.returned = "promise"
           /\ c.callbackCalls = 0
           /\ c.settled = (IF done THEN 1 ELSE 0)
           /\ c.promise = (IF ~done THEN "pending"
                           ELSE IF c.outcome = "ok" THEN "resolved" ELSE "rejected")
    /\ ~(c.callbackCalls > 0 /\ c.returned = "promise")

C3_ResolvedReached ==
    /\ last.style = "promise"
    /\ last.promise = "resolved"
    /\ last.settled = 1

====
